---- MODULE Spec2Model ----
(***************************************************************************)
(* A model of untrusted.rs: Input (a read-only view of a byte slice),      *)
(* Reader (a forward-only cursor over an Input), and the read_all /        *)
(* read_all_optional wrappers.                                             *)
(*                                                                         *)
(* An Input is modelled by the sequence of bytes it denotes (its equality  *)
(* is structural, src/src/untrusted.rs:183-186).  A Reader is modelled by  *)
(* the Input it wraps.  A callback handed to read_all, read_all_optional   *)
(* or read_partial is modelled by the steps it may take on the             *)
(* `&mut Reader<'a>` it receives: any Reader method, a nested read_partial,*)
(* an assignment `*reader = Reader::new(v)`, and finally a return of       *)
(* Ok(value) or Err(error).                                                *)
(***************************************************************************)
EXTENDS Integers, Sequences, FiniteSets, TLC

\* ------------------------------------------------------------------ bounds

\* Longest buffer a View is constructed over.
MaxLen == 2

\* Width of usize in bits (scaled down from 32/64).
UsizeBits == 3

\* Deepest nesting of read_partial calls.
MaxDepth == 1

\* core::usize::MAX
USIZE_MAX == (2 ^ UsizeBits) - 1

\* u8, abstracted to two values.
Byte == {0, 1}

\* usize
Usize == 0 .. USIZE_MAX

\* The sizes read_bytes and skip are called with: every size up to one past
\* the longest buffer, and the largest usize.
NumBytes == {n \in Usize : n <= MaxLen + 1 \/ n = USIZE_MAX}

\* The buffers Input::from is called with: the debug_assert of Input::from
\* holds of each (len < usize::MAX).
Buffers == {b \in UNION {[1 .. k -> Byte] : k \in 0 .. MaxLen} : Len(b) < USIZE_MAX}

\* A buffer of another origin that a callback may hold an Input over.
Foreign == <<1, 0>>

\* Success values and errors a callback may return (the type parameters R, E).
Values == {"R1", "R2"}

Errors == {"E1", "E2"}

\* The incomplete_read error the entry points are called with.  Errors are
\* opaque to the code, so one of them stands for any.
IncompleteRead == {"E1"}

\* ------------------------------------------------- Option, Result, unit

None == [some |-> FALSE]

Some(x) == [some |-> TRUE, v |-> x]

Ok(x) == [ok |-> TRUE, v |-> x]

Err(e) == [ok |-> FALSE, e |-> e]

Unit == "()"

EndOfInput == "EndOfInput"

NoRet == "none"

\* usize::checked_sub
checked_sub(a, b) == IF a >= b THEN Some(a - b) ELSE None

\* ------------------------------------------------------------------ Input

Input_empty == <<>>

Input_from(bytes) == bytes

first(self) == IF Len(self) = 0 THEN None ELSE Some(self[1])

is_empty(self) == Len(self) = 0

len(self) == Len(self)

split_first(self) ==
    IF Len(self) = 0 THEN None ELSE Some(<<self[1], Tail(self)>>)

\* split_at with the bound check off by one: i = len is refused.
split_at_strict(self, i) ==
    IF len(self) <= i
    THEN None
    ELSE Some(<<SubSeq(self, 1, i), SubSeq(self, i + 1, Len(self))>>)

\* split_at that clamps an index past the end to the end.
split_at_clamped(self, i) ==
    LET k == IF len(self) < i THEN len(self) ELSE i
    IN  Some(<<SubSeq(self, 1, k), SubSeq(self, k + 1, Len(self))>>)

\* split_at that checks the bound on i + 1, computed in usize: it wraps to 0
\* for i = usize::MAX.
split_at_wrapping(self, i) ==
    LET k == IF len(self) < i THEN len(self) ELSE i
    IN  IF len(self) + 1 < (i + 1) % (USIZE_MAX + 1)
        THEN None
        ELSE Some(<<SubSeq(self, 1, k), SubSeq(self, k + 1, Len(self))>>)

split_at(self, i) ==
    IF len(self) < i
    THEN None
    ELSE Some(<<SubSeq(self, 1, i), SubSeq(self, i + 1, Len(self))>>)

\* read_all checking for leftover bytes before looking at the callback's result.
read_all_ret_check_first(input, incomplete_read, r) ==
    IF ~is_empty(input) THEN Err(incomplete_read) ELSE r

\* The tail of Input::read_all, once the callback `read` returned r and left
\* the Reader as `input`.
read_all_ret(input, incomplete_read, r) ==
    IF ~r.ok THEN r
    ELSE IF is_empty(input) THEN Ok(r.v) ELSE Err(incomplete_read)

\* read_all_optional without the at_end check in the Some branch.
read_all_optional_ret_unchecked(present, input, incomplete_read, r) == r

\* read_all_optional reporting an incomplete read when there is no input.
read_all_optional_ret_none_incomplete(present, input, incomplete_read, r) ==
    IF present
    THEN IF ~r.ok THEN r
         ELSE IF is_empty(input) THEN Ok(r.v) ELSE Err(incomplete_read)
    ELSE IF r.ok THEN Err(incomplete_read) ELSE r

\* The same for read_all_optional; `present` tells Some(input) from None.
read_all_optional_ret(present, input, incomplete_read, r) ==
    IF present
    THEN IF ~r.ok THEN r
         ELSE IF is_empty(input) THEN Ok(r.v) ELSE Err(incomplete_read)
    ELSE r

\* ----------------------------------------------------------------- Reader
\* A method taking &mut self yields [self |-> the Reader afterwards,
\* ret |-> the value returned].

Reader_new(input) == input

at_end(self) == is_empty(self)

\* peek that only looks whether a byte is left.
peek_any(self, b) == first(self).some

peek(self, b) == LET f == first(self) IN f.some /\ f.v = b

\* read_byte that returns the next byte without advancing.
read_byte_no_advance(self) ==
    LET s == split_first(self)
    IN  IF ~s.some
        THEN [self |-> self, ret |-> Err(EndOfInput)]
        ELSE [self |-> self, ret |-> Ok(s.v[1])]

read_byte(self) ==
    LET s == split_first(self)
    IN  IF ~s.some
        THEN [self |-> self, ret |-> Err(EndOfInput)]
        ELSE [self |-> s.v[2], ret |-> Ok(s.v[1])]

\* read_bytes that consumes what is left when too few bytes remain.
read_bytes_drain(self, num_bytes) ==
    LET s == split_at(self, num_bytes)
    IN  IF ~s.some
        THEN [self |-> Input_empty, ret |-> Err(EndOfInput)]
        ELSE [self |-> s.v[2], ret |-> Ok(s.v[1])]

read_bytes(self, num_bytes) ==
    LET s == split_at(self, num_bytes)
    IN  IF ~s.some
        THEN [self |-> self, ret |-> Err(EndOfInput)]
        ELSE [self |-> s.v[2], ret |-> Ok(s.v[1])]

\* read_bytes_to_end that hands back the new, empty Input instead of the old one.
read_bytes_to_end_swapped(self) == [self |-> Input_empty, ret |-> Input_empty]

read_bytes_to_end(self) == [self |-> Input_empty, ret |-> self]

\* skip that skips what is left when too few bytes remain.
skip_clamped(self, num_bytes) ==
    LET k == IF len(self) < num_bytes THEN len(self) ELSE num_bytes
        r == read_bytes(self, k)
    IN  [self |-> r.self, ret |-> Ok(Unit)]

skip(self, num_bytes) ==
    LET r == read_bytes(self, num_bytes)
    IN  [self |-> r.self, ret |-> IF r.ret.ok THEN Ok(Unit) ELSE r.ret]

\* skip_to_end that does nothing.
skip_to_end_noop(self) == [self |-> self, ret |-> Unit]

skip_to_end(self) == [self |-> read_bytes_to_end(self).self, ret |-> Unit]

\* read_partial that rewinds the Reader when the callback fails.
read_partial_ret_rollback(original, self, r) ==
    IF ~r.ok
    THEN [self |-> original, panic |-> FALSE, ret |-> r]
    ELSE LET amount_read == checked_sub(len(original), len(self))
         IN  IF ~amount_read.some
             THEN [self |-> self, panic |-> TRUE, ret |-> NoRet]
             ELSE LET s == split_at(original, amount_read.v)
                  IN  IF ~s.some
                      THEN [self |-> self, panic |-> TRUE, ret |-> NoRet]
                      ELSE [self |-> self, panic |-> FALSE, ret |-> Ok(<<s.v[1], r.v>>)]

\* The tail of Reader::read_partial, once the callback `read` returned r and
\* left the Reader as `self`; `original` is the Reader's Input at the call.
\* [panic |-> TRUE] is an unwrap() of None.  read_partial itself never
\* assigns to self.0: `self` is handed back as the callback left it.
read_partial_ret(original, self, r) ==
    IF ~r.ok
    THEN [self |-> self, panic |-> FALSE, ret |-> r]
    ELSE LET amount_read == checked_sub(len(original), len(self))
         IN  IF ~amount_read.some
             THEN [self |-> self, panic |-> TRUE, ret |-> NoRet]
             ELSE LET s == split_at(original, amount_read.v)
                  IN  IF ~s.some
                      THEN [self |-> self, panic |-> TRUE, ret |-> NoRet]
                      ELSE [self |-> self, panic |-> FALSE, ret |-> Ok(<<s.v[1], r.v>>)]

\* ------------------------------------------------------------------ state

VARIABLES
    outer,     \* None, or Some of the Input a Reader was made over and that Reader's
               \* field .0 after its read_bytes returned `view`
    view,      \* the Input the entry point is given (the View at construction)
    present,   \* read_all_optional: the Option<Input> is Some
    incomplete_read, \* the error the entry point was given for an incomplete read
    given,     \* what the entry point handed its callback: "&mut", "Some(&mut)" or "None"
    entry,     \* how the Reader came to be: "new", "read_all", "read_all_optional"
    pc,        \* "outer": no view yet; "idle": nothing called on view yet; "running";
               \* "done": the entry point returned
    reader,    \* the Reader's field .0
    frames,    \* the calls whose callback is running, outermost first
    last,      \* the last operation completed: its name, argument, Reader before, return value
    calls,     \* how many times the entry point's callback was invoked
    replaced,  \* a callback has assigned a new Reader to the `&mut Reader` it was given
    consumed,  \* the bytes the successful consuming calls on the Reader returned (for
               \* skip and skip_to_end: passed over), in call order; Lost once a call
               \* consumed bytes that do not follow, in the view, those consumed before
    rbcalls,   \* n if the Reader has seen exactly n read_byte calls and no other operation
               \* (counted up to len(view) + 1), -1 otherwise
    panicked   \* an unwrap() of None was reached

vars == <<outer, view, present, incomplete_read, given, entry, pc, reader, frames, last, calls, replaced,
          consumed, rbcalls, panicked>>

\* `fresh`: the operation was the first on a newly made Reader.
Op(name, arg, before, ret) ==
    [op |-> name, arg |-> arg, before |-> before, fresh |-> rbcalls = 0, ret |-> ret]

\* A Reader exists and the code holding it is running.
HasReader == pc = "running" /\ given # "None" /\ ~panicked

InCallback == frames # <<>>

Top == frames[Len(frames)]

\* The closed record of consumed bytes: no sequence of bytes.
Lost == <<-1>>

\* `consumed` after a call that returned (or passed over) the bytes bs.
\* While the bytes consumed and the remaining window make up the view, bs
\* are the bytes of the view that follow those consumed.  When they do not,
\* bs are other bytes, or bytes consumed before: the record is closed.
Consume(bs) ==
    IF consumed \o reader = view THEN consumed \o bs
    ELSE IF bs = <<>> THEN consumed
    ELSE Lost

\* The bytes a call passed over that took the Reader from `before` to `after`.
Passed(before, after) == SubSeq(before, 1, Len(before) - Len(after))

Init ==
    /\ outer = None
    /\ view \in Buffers
    /\ present = TRUE
    /\ incomplete_read = "none"
    /\ given = "none"
    /\ entry = "none"
    /\ pc = "idle"
    /\ reader = Input_empty
    /\ frames = <<>>
    /\ last = [op |-> "none", arg |-> 0, before |-> Input_empty, fresh |-> FALSE, ret |-> NoRet]
    /\ calls = 0
    /\ replaced = FALSE
    /\ consumed = <<>>
    /\ rbcalls = -1
    /\ panicked = FALSE

\* ---------------------------------------------------------- entry points

\* let mut r = Reader::new(Input::from(view))
ReaderNew ==
    /\ pc = "idle"
    /\ pc' = "running"
    /\ entry' = "new"
    /\ reader' = Reader_new(Input_from(view))
    /\ rbcalls' = 0
    /\ last' = Op("new", 0, Input_empty, NoRet)
    /\ given' = "&mut"
    /\ UNCHANGED <<outer, view, present, incomplete_read, frames, calls, replaced, consumed, panicked>>

\* Input::from(view).read_all(incomplete_read, read): up to the call of read.
ReadAllCall(err) ==
    /\ pc = "idle"
    /\ pc' = "running"
    /\ entry' = "read_all"
    /\ reader' = Reader_new(Input_from(view))
    /\ incomplete_read' = err
    /\ frames' = <<[kind |-> "read_all", original |-> view]>>
    /\ given' = "&mut"
    /\ calls' = calls + 1
    /\ rbcalls' = 0
    /\ last' = Op("new", 0, Input_empty, NoRet)
    /\ UNCHANGED <<outer, view, present, replaced, consumed, panicked>>

\* read_all_optional(input, incomplete_read, read): up to the call of read.
\* some = FALSE is input = None: read is called with None, no Reader is made.
ReadAllOptionalCall(some, err) ==
    /\ pc = "idle"
    /\ pc' = "running"
    /\ entry' = "read_all_optional"
    /\ present' = some
    /\ reader' = IF some THEN Reader_new(Input_from(view)) ELSE reader
    /\ incomplete_read' = err
    /\ frames' = <<[kind |-> "read_all_optional", original |-> view]>>
    /\ given' = IF some THEN "Some(&mut)" ELSE "None"
    /\ calls' = calls + 1
    /\ rbcalls' = IF some THEN 0 ELSE -1
    /\ last' = Op("new", 0, Input_empty, NoRet)
    /\ UNCHANGED <<outer, view, replaced, consumed, panicked>>

\* Input::from(view).split_at(i), on the View before a Reader is made of it.
SplitAt(i) ==
    /\ pc = "idle"
    /\ last' = Op("split_at", i, view, split_at(Input_from(view), i))
    /\ UNCHANGED <<outer, view, present, incomplete_read, given, entry, pc, reader, frames, calls, replaced,
                   consumed, rbcalls, panicked>>

\* ------------------------------------------------------- Reader operations

Frame == UNCHANGED <<outer, view, present, incomplete_read, given, entry, pc, frames, calls, panicked>>

Same == Frame /\ UNCHANGED replaced

AtEnd ==
    /\ HasReader
    /\ last' = Op("at_end", 0, reader, at_end(reader))
    /\ rbcalls' = -1
    /\ UNCHANGED <<reader, consumed>>
    /\ Same

Peek(b) ==
    /\ HasReader
    /\ last' = Op("peek", b, reader, peek(reader, b))
    /\ rbcalls' = -1
    /\ UNCHANGED <<reader, consumed>>
    /\ Same

ReadByte ==
    /\ HasReader
    /\ LET r == read_byte(reader)
       IN  /\ reader' = r.self
           /\ last' = Op("read_byte", 0, reader, r.ret)
           /\ consumed' = Consume(IF r.ret.ok THEN <<r.ret.v>> ELSE <<>>)
    /\ rbcalls' = IF rbcalls = -1 \/ rbcalls > Len(view) THEN rbcalls ELSE rbcalls + 1
    /\ Same

ReadBytes(num_bytes) ==
    /\ HasReader
    /\ LET r == read_bytes(reader, num_bytes)
       IN  /\ reader' = r.self
           /\ last' = Op("read_bytes", num_bytes, reader, r.ret)
           /\ consumed' = Consume(IF r.ret.ok THEN r.ret.v ELSE <<>>)
    /\ rbcalls' = -1
    /\ Same

ReadBytesToEnd ==
    /\ HasReader
    /\ LET r == read_bytes_to_end(reader)
       IN  /\ reader' = r.self
           /\ last' = Op("read_bytes_to_end", 0, reader, r.ret)
           /\ consumed' = Consume(r.ret)
    /\ rbcalls' = -1
    /\ Same

Skip(num_bytes) ==
    /\ HasReader
    /\ LET r == skip(reader, num_bytes)
       IN  /\ reader' = r.self
           /\ last' = Op("skip", num_bytes, reader, r.ret)
           /\ consumed' = Consume(Passed(reader, r.self))
    /\ rbcalls' = -1
    /\ Same

SkipToEnd ==
    /\ HasReader
    /\ LET r == skip_to_end(reader)
       IN  /\ reader' = r.self
           /\ last' = Op("skip_to_end", 0, reader, r.ret)
           /\ consumed' = Consume(Passed(reader, r.self))
    /\ rbcalls' = -1
    /\ Same

\* reader.read_partial(read): up to the call of read.
ReadPartialCall ==
    /\ HasReader
    /\ Len(frames) < MaxDepth + 1
    /\ frames' = Append(frames, [kind |-> "read_partial", original |-> reader])
    /\ last' = Op("call_read_partial", 0, reader, NoRet)
    /\ rbcalls' = -1
    /\ UNCHANGED <<outer, view, present, incomplete_read, given, entry, pc, reader, calls, replaced, consumed, panicked>>

\* ------------------------------------------------------- callback's steps

\* The Inputs a callback may hold besides those it reads: a copy of the View
\* being parsed, an Input over another buffer, and a copy of the Input the
\* View was read from (Input is Copy).
Captured == {view, Foreign} \cup (IF outer.some THEN {outer.v.input} ELSE {})

\* Inside a callback: *reader = Reader::new(v).
Replace(v) ==
    /\ HasReader
    /\ InCallback
    /\ reader' = Reader_new(v)
    /\ replaced' = TRUE
    /\ last' = Op("replace", 0, reader, NoRet)
    /\ rbcalls' = -1
    /\ UNCHANGED consumed
    /\ Frame

\* The callback of a read_partial returns r, and read_partial finishes.
ReadPartialReturn(r) ==
    /\ HasReader
    /\ InCallback
    /\ Top.kind = "read_partial"
    /\ LET f == read_partial_ret(Top.original, reader, r)
       IN  /\ panicked' = f.panic
           /\ reader' = f.self
           /\ last' = Op(IF f.panic THEN "panic" ELSE "read_partial", r, Top.original, f.ret)
    /\ frames' = SubSeq(frames, 1, Len(frames) - 1)
    /\ rbcalls' = -1
    /\ UNCHANGED <<outer, view, present, incomplete_read, given, entry, pc, calls, replaced, consumed>>

\* The callback of read_all returns r, and read_all finishes.
ReadAllReturn(r) ==
    /\ HasReader
    /\ InCallback
    /\ Top.kind = "read_all"
    /\ last' = Op("read_all", r, reader, read_all_ret(reader, incomplete_read, r))
    /\ frames' = <<>>
    /\ pc' = "done"
    /\ UNCHANGED <<outer, view, present, incomplete_read, given, entry, reader, calls, replaced, consumed, rbcalls,
                   panicked>>

\* The callback of read_all_optional returns r, and read_all_optional finishes.
ReadAllOptionalReturn(r) ==
    /\ pc = "running"
    /\ ~panicked
    /\ InCallback
    /\ Top.kind = "read_all_optional"
    /\ last' = Op("read_all_optional", r, reader,
                  read_all_optional_ret(present, reader, incomplete_read, r))
    /\ frames' = <<>>
    /\ pc' = "done"
    /\ UNCHANGED <<outer, view, present, incomplete_read, given, entry, reader, calls, replaced, consumed, rbcalls,
                   panicked>>

\* What a callback may return.
Returns == {Ok(v) : v \in Values} \cup {Err(e) : e \in Errors}

Next ==
    \/ ReaderNew
    \/ \E e \in IncompleteRead : ReadAllCall(e)
    \/ \E s \in BOOLEAN, e \in IncompleteRead : ReadAllOptionalCall(s, e)
    \/ \E i \in Usize : SplitAt(i)
    \/ AtEnd
    \/ \E b \in Byte : Peek(b)
    \/ ReadByte
    \/ \E n \in NumBytes : ReadBytes(n)
    \/ ReadBytesToEnd
    \/ \E n \in NumBytes : Skip(n)
    \/ SkipToEnd
    \/ ReadPartialCall
    \/ \E v \in Captured : Replace(v)
    \/ \E r \in Returns : ReadPartialReturn(r)
    \/ \E r \in Returns : ReadAllReturn(r)
    \/ \E r \in Returns : ReadAllOptionalReturn(r)

Spec == Init /\ [][Next]_vars

\* ----------------------------------------------------------- nested parse

\* let mut outer = Reader::new(Input::from(b))
InitNested ==
    /\ \E b \in Buffers :
            outer = Some([input |-> Input_from(b), reader |-> Reader_new(Input_from(b))])
    /\ view = Input_empty
    /\ pc = "outer"
    /\ present = TRUE
    /\ incomplete_read = "none"
    /\ given = "none"
    /\ entry = "none"
    /\ reader = Input_empty
    /\ frames = <<>>
    /\ last = [op |-> "none", arg |-> 0, before |-> Input_empty, fresh |-> FALSE, ret |-> NoRet]
    /\ calls = 0
    /\ replaced = FALSE
    /\ consumed = <<>>
    /\ rbcalls = -1
    /\ panicked = FALSE

\* let view = outer.read_bytes(n)?  (before anything is called on a view)
OuterReadBytes(n) ==
    /\ pc \in {"outer", "idle"}
    /\ LET r == read_bytes(outer.v.reader, n) IN
        /\ r.ret.ok
        /\ outer' = Some([input |-> outer.v.input, reader |-> r.self])
        /\ view' = r.ret.v
    /\ pc' = "idle"
    /\ UNCHANGED <<present, incomplete_read, given, entry, reader, frames, last, calls, replaced,
                   consumed, rbcalls, panicked>>

NextNested ==
    \/ \E n \in NumBytes : OuterReadBytes(n)
    \/ Next

SpecNested == InitNested /\ [][NextNested]_vars

\* ----------------------------------------------------------------- claims

\* s is a suffix of t.
IsSuffix(s, t) == \E k \in 0 .. Len(t) : s = SubSeq(t, k + 1, Len(t))

\* The Result r is Err(e).
IsErr(r, e) == ~r.ok /\ r.e = e

\* The Result r is Ok(x).
IsOk(r, x) == r.ok /\ r.v = x

\* The Results a and b are the same.
SameResult(a, b) == a.ok = b.ok /\ (IF a.ok THEN a.v = b.v ELSE a.e = b.e)

\* C1: once a Reader is made over the view, its remaining window is always a
\* suffix of that view, and no operation (read_partial with its callback
\* included) leaves it longer than it was before the operation.
C1_SuffixNeverGrows ==
    pc # "idle" =>
        /\ IsSuffix(reader, view)
        /\ (last.op # "new" => Len(reader) <= Len(last.before))

\* C2: no operation reaches a panic: neither unwrap() of read_partial is
\* applied to None, whatever the callback does.
C2_NoPanic == ~panicked

\* C3: read_bytes(n) on a freshly made Reader over b, with n <= len(b),
\* returns Ok(b[0..n]) and leaves b[n..], that is len(b) - n bytes.
C3_ReadBytesFresh ==
    (last.op = "read_bytes" /\ last.fresh /\ last.arg <= Len(view)) =>
        /\ IsOk(last.ret, SubSeq(view, 1, last.arg))
        /\ reader = SubSeq(view, last.arg + 1, Len(view))
        /\ Len(reader) = Len(view) - last.arg

C3_Witness ==
    /\ last.op = "read_bytes"
    /\ last.fresh
    /\ Len(view) = 2
    /\ last.arg = 1

\* C4: with L bytes remaining, read_bytes(n) and skip(n) with n > L, and
\* read_byte() with L = 0, return Err(EndOfInput) and leave the Reader's
\* remaining window as it was before the call.
C4_FailedReadUnchanged ==
    /\ (last.op \in {"read_bytes", "skip"} /\ last.arg > Len(last.before)) =>
            IsErr(last.ret, EndOfInput) /\ reader = last.before
    /\ (last.op = "read_byte" /\ Len(last.before) = 0) =>
            IsErr(last.ret, EndOfInput) /\ reader = last.before

C4_Witness ==
    /\ last.op = "skip"
    /\ Len(last.before) = 1
    /\ last.arg = 2

\* C5: read_all returns the callback's value iff the callback succeeded and
\* left the Reader at end; a success with bytes left gives Err(incomplete_read);
\* a callback error is returned as it is, bytes left or not.
C5_ReadAll ==
    last.op = "read_all" =>
        /\ (last.ret.ok <=> (last.arg.ok /\ Len(reader) = 0))
        /\ (last.ret.ok => last.ret.v = last.arg.v)
        /\ (last.arg.ok /\ Len(reader) > 0 => IsErr(last.ret, incomplete_read))
        /\ (~last.arg.ok => IsErr(last.ret, last.arg.e))

C5_Witness ==
    /\ last.op = "read_all"
    /\ ~last.arg.ok
    /\ last.arg.e # incomplete_read
    /\ Len(reader) > 0
    /\ Len(reader) < Len(view)

\* C6 as claimed, for callbacks that only call the Reader's methods: a
\* read_partial that fails because its callback failed leaves the Reader as
\* it was before the read_partial call.
C6_FailedReadPartialUntouched ==
    (last.op = "read_partial" /\ ~last.ret.ok /\ ~replaced) => reader = last.before

\* C6 as amended: a read_partial whose callback fails returns the callback's
\* error and does not touch the Reader: it stays as the callback left it
\* (what the callback consumed before failing stays consumed).
C6_FailedReadPartialAsLeft ==
    [][(/\ InCallback
        /\ Top.kind = "read_partial"
        /\ Len(frames') < Len(frames)
        /\ ~last'.arg.ok)
       => (/\ reader' = reader
           /\ ~panicked'
           /\ last'.op = "read_partial"
           /\ IsErr(last'.ret, last'.arg.e))]_vars

C6_Witness ==
    /\ ~replaced
    /\ last.op = "read_partial"
    /\ ~last.ret.ok
    /\ IsSuffix(reader, last.before)
    /\ Len(reader) < Len(last.before)

\* C7: a read_partial that succeeds on a Reader with window w returns the
\* callback's value with the prefix of w of length len(w) - len(remaining),
\* and leaves the Reader with the rest of w.
C7_ReadPartialPrefix ==
    (last.op = "read_partial" /\ last.ret.ok) =>
        LET w == last.before
            k == Len(w) - Len(reader)
        IN  /\ k >= 0
            /\ last.ret.v[1] = SubSeq(w, 1, k)
            /\ last.ret.v[2] = last.arg.v
            /\ reader = SubSeq(w, k + 1, Len(w))

\* C8: on a Reader over b that is only ever asked read_byte(), call number i
\* (from 1) returns Ok(b[i]) for i <= len(b), and every later call returns
\* Err(EndOfInput).
C8_ReadByteSequence ==
    (last.op = "read_byte" /\ rbcalls >= 1) =>
        IF rbcalls <= Len(view)
        THEN IsOk(last.ret, view[rbcalls])
        ELSE IsErr(last.ret, EndOfInput)

C8_Witness ==
    /\ last.op = "read_byte"
    /\ Len(view) = 2
    /\ rbcalls = 3

\* C9: read_all_optional(Some(view), err, f) returns what view.read_all(err, f)
\* returns for a callback that does the same to the Reader and returns the same.
C9_OptionalSomeIsReadAll ==
    (last.op = "read_all_optional" /\ present) =>
        SameResult(last.ret, read_all_ret(reader, incomplete_read, last.arg))

C9_Witness ==
    /\ last.op = "read_all_optional"
    /\ present
    /\ last.arg.ok
    /\ Len(reader) > 0

\* C10: read_all_optional(None, err, f) calls f once, with None, and returns
\* what f returns, Ok or Err; it makes no incomplete-read error of its own.
C10_OptionalNone ==
    (last.op = "read_all_optional" /\ ~present) =>
        /\ calls = 1
        /\ given = "None"
        /\ SameResult(last.ret, last.arg)

C10_Witness ==
    /\ last.op = "read_all_optional"
    /\ ~present
    /\ last.arg.ok

\* C11: skip_to_end() leaves the Reader at end; on a Reader already at end it
\* changes nothing, and read_bytes_to_end() at end returns an empty Input.
C11_SkipToEnd ==
    /\ last.op = "skip_to_end" =>
            /\ at_end(reader)
            /\ (Len(last.before) = 0 => reader = last.before)
    /\ (last.op = "read_bytes_to_end" /\ Len(last.before) = 0) =>
            /\ last.ret = <<>>
            /\ reader = last.before

C11_Witness ==
    /\ last.op = "skip_to_end"
    /\ Len(last.before) = 2

\* C12: a Reader at end stays at end under every further operation: from there
\* read_byte, and read_bytes(n) and skip(n) with n >= 1, fail with EndOfInput,
\* peek is false, and read_bytes(0), skip(0), read_bytes_to_end and
\* skip_to_end succeed; whatever was done, the Reader is at end afterwards.
C12_AtEndIsTerminal ==
    (last.op \notin {"none", "new", "split_at"} /\ Len(last.before) = 0) =>
        /\ Len(reader) = 0
        /\ (last.op = "read_byte" => IsErr(last.ret, EndOfInput))
        /\ (last.op \in {"read_bytes", "skip"} =>
                IF last.arg >= 1 THEN IsErr(last.ret, EndOfInput) ELSE last.ret.ok)
        /\ (last.op = "peek" => ~last.ret)

\* C13: peek(x) is true iff a byte remains and the next byte is x; peek and
\* at_end leave the Reader's remaining window as it was.
C13_Peek ==
    /\ last.op = "peek" =>
            /\ last.ret <=> (Len(last.before) > 0 /\ last.before[1] = last.arg)
            /\ reader = last.before
    /\ last.op = "at_end" =>
            /\ last.ret <=> Len(last.before) = 0
            /\ reader = last.before

C13_Witness ==
    /\ last.op = "peek"
    /\ Len(last.before) = 2
    /\ last.before[1] # last.arg

\* C14: v.split_at(i) is (v[0..i], v[i..]) when i <= len(v), the two parts
\* making up v, and None when i > len(v) (no clamping); v is left as it was.
C14_SplitAt ==
    last.op = "split_at" =>
        LET v == last.before
            i == last.arg
        IN  /\ view = v
            /\ IF i <= Len(v)
               THEN /\ last.ret.some
                    /\ last.ret.v[1] = SubSeq(v, 1, i)
                    /\ last.ret.v[2] = SubSeq(v, i + 1, Len(v))
                    /\ last.ret.v[1] \o last.ret.v[2] = v
               ELSE ~last.ret.some

C14_Witness ==
    /\ last.op = "split_at"
    /\ Len(last.before) = 2
    /\ last.arg = 1

\* C15: skip(n) succeeds, fails with EndOfInput, and leaves the Reader, as
\* read_bytes(n) does on the same Reader; skip_to_end() leaves the Reader as
\* read_bytes_to_end() does.
C15_SkipIsReadBytes ==
    /\ last.op = "skip" =>
            LET rb == read_bytes(last.before, last.arg)
            IN  /\ last.ret.ok = rb.ret.ok
                /\ (~rb.ret.ok => IsErr(last.ret, rb.ret.e))
                /\ reader = rb.self
    /\ last.op = "skip_to_end" =>
            reader = read_bytes_to_end(last.before).self

C15_Witness ==
    /\ last.op = "skip"
    /\ Len(last.before) = 1
    /\ last.arg = 2

\* C16: read_bytes_to_end() on a Reader with window w returns w and leaves
\* no byte; it has no way to fail.
C16_ReadBytesToEnd ==
    last.op = "read_bytes_to_end" =>
        /\ last.ret = last.before
        /\ Len(reader) = 0

C16_Witness ==
    /\ last.op = "read_bytes_to_end"
    /\ Len(last.before) = 2

\* C17: no byte is read twice or dropped: after any sequence of read_byte,
\* read_bytes, skip, read_bytes_to_end, skip_to_end and read_partial calls on
\* a Reader made by Reader::new over b, the bytes the successful consuming
\* calls returned (passed over, for skip and skip_to_end; a read_partial
\* returns again what the calls of its callback consumed), in call order,
\* followed by the Reader's remaining window, are b.
C17_ConsumedThenRemaining ==
    (entry = "new" /\ pc = "running" /\ frames = <<>> /\ ~panicked) =>
        consumed \o reader = view

\* s is a prefix of t.
IsPrefix(s, t) == Len(s) <= Len(t) /\ s = SubSeq(t, 1, Len(s))

\* A Reader made over `view` (by Reader::new or by an entry point) exists.
InnerExists == pc \in {"running", "done"} /\ given \notin {"none", "None"}

\* C18: a Reader made (by Reader::new or through read_all) over the view that
\* outer.read_bytes(n) returned consumes bytes of that view only, at most its
\* n bytes, and its window never holds a byte of the outer Reader's remaining
\* window; and no step of the nested parse changes the outer Reader's
\* remaining window or the view the inner Reader was made from.
C18_NestedConfined ==
    /\ []((outer.some /\ InnerExists) =>
            /\ IsSuffix(reader, view)
            /\ IsPrefix(consumed, view))
    /\ [][(outer.some /\ pc' \in {"running", "done"}) =>
            (outer' = outer /\ view' = view)]_vars

\* C19: for every size n up to usize::MAX, read_bytes(n), skip(n) and
\* split_at(n) succeed iff n <= the length left, and fail (EndOfInput, None)
\* iff n > it: no size succeeds by wrapping around.
C19_NoWrap ==
    /\ last.op \in {"read_bytes", "skip"} =>
            /\ last.ret.ok <=> last.arg <= Len(last.before)
            /\ (last.arg > Len(last.before) => IsErr(last.ret, EndOfInput))
    /\ last.op = "split_at" =>
            (last.ret.some <=> last.arg <= Len(last.before))

C19_Witness ==
    /\ last.op = "read_bytes"
    /\ last.arg = USIZE_MAX
    /\ Len(last.before) = 2
    /\ Len(last.before) < USIZE_MAX

====
